---- MODULE Spec2Model ----
(***************************************************************************)
(* A model of webcli's process supervisor (launcher.go: process,           *)
(* newProcess) and of the HTTP handlers that drive it (webcli.go: the      *)
(* /events/{id} stream, the /logs/{id} and /cancel/{id} pages and          *)
(* Server.Stop).  One Run is modelled from the moment newProcess returns.  *)
(*                                                                         *)
(* Strings are sequences of one-character strings, so that the log, the    *)
(* chunks and strings.ReplaceAll are computed on their characters.         *)
(* Each /events request is one handler instance; its subscriber id         *)
(* (UnixNano of the request) is taken to be distinct per instance.         *)
(***************************************************************************)
EXTENDS Integers, Sequences, FiniteSets, TLC

\* Number of data chunks the child process can hand to Read.
MaxReads == 1

\* The /events/{id} requests (handler instances) that can arrive.
Subs == {1, 2}

\* What the child process can write in one Read: text with and without a
\* line break ("h" stands for a run of ordinary characters).
Outputs == { <<"h">>, <<"h", "\n">> }

\* io.EOF.Error() and the text of any other read error.
EOFText == <<"E", "O", "F">>
ErrText == <<"e", "r", "r">>

\* The line-break token of strings.ReplaceAll(text, "\n", "<br>").
BrToken == <<"<", "b", "r", ">">>

RECURSIVE ReplaceAll(_)
ReplaceAll(text) ==
    IF text = <<>> THEN <<>>
    ELSE IF Head(text) = "\n" THEN BrToken \o ReplaceAll(Tail(text))
    ELSE <<Head(text)>> \o ReplaceAll(Tail(text))

IsPrefix(s, t) == Len(s) <= Len(t) /\ SubSeq(t, 1, Len(s)) = s

RECURSIVE Concat(_)
Concat(ss) == IF ss = <<>> THEN <<>> ELSE Head(ss) \o Concat(Tail(ss))

\* Bytes past the end of the old string's buffer, as a torn read of the
\* string header (old pointer, new length) sees them.
Junk(n) == [i \in 1..n |-> "?"]

VARIABLES
    pc,          \* position of the broadcast goroutine
    logs,        \* p.logs
    callbacks,   \* p.callbacks (the subscriber ids present)
    listening,   \* p.listening() has been called (waitListening is cancelled)
    lck,         \* p.lck: "free" or "loop"
    endSet,      \* p.end is set
    error,       \* p.error
    canceled,    \* p.canceled
    ctxErr,      \* ctx.Err() of the Run's context: "nil" or "Canceled"
    srvErr,      \* Err() of the server context
    text,        \* the loop's local text
    err,         \* the loop's local err: "nil", "EOF" or "err"
    reads,       \* data chunks read so far
    todo,        \* callbacks the range loop has still to call
    cur,         \* callback being executed (0: none)
    stage,       \* where that callback is: "log" or "close" send
    hs,          \* state of each /events handler instance
    written,     \* records each handler wrote to its client
    received,    \* history: the (text, close) calls each callback got
    chunks,      \* history: the texts in the order they were read
    raw,         \* history: the data the reads returned, before ReplaceAll
    subAt,       \* history: number of chunks read when each subscribed
    subLive,     \* history: the loop had not left when each subscribed
    logsRet,     \* history: the last value a Logs() call returned
    cancelRunning, \* history: Cancel was called while the process ran
    logAtCancel, \* history: p.logs at that call
    lateCancel,  \* history: Cancel was called on a terminal Run
    clock,       \* time.Now(), in ticks finer than a millisecond
    processes,   \* the processes map: id -> Run (0: no entry)
    regLck,      \* lck of the processes map: "free" or "held"
    created,     \* number of Runs newProcess has created
    st,          \* state of each /run request (Start call)
    sargs,       \* the argument vector each Start call was given
    sid,         \* the id each Start call generated
    srun,        \* the Run newProcess returned to each Start call (0: none)
    released,    \* newProcess called cancel() of the context it created
    found,       \* history: the Runs the last read of the map returned
    raced,       \* history: a read of the map fell inside an insert
    absentCalled, \* history: ids Unsubscribe was called with while absent
    pc2,         \* position of the loop of the second Run created
    reads2,      \* data chunks that loop has read and appended
    stopRet,     \* what Server.Stop returned: "none", "nil" or "error"
    subDone      \* history: chunks already broadcast when each subscribed

vars == <<pc, logs, callbacks, listening, lck, endSet, error, canceled,
          ctxErr, srvErr, text, err, reads, todo, cur, stage, hs, written,
          received, chunks, raw, subAt, subLive, logsRet, cancelRunning,
          logAtCancel, lateCancel, clock, processes, regLck, created, st,
          sargs, sid, srun, released, found, raced, absentCalled, pc2,
          reads2, stopRet, subDone>>

\* The variables of the Registry (webcli.go: lck, processes, the /run
\* requests) and those outside the Run's own handlers.
regVars == <<clock, processes, regLck, created, st, sargs, sid, srun,
             released, found, raced>>
run2Vars == <<pc2, reads2>>
restVars == <<regVars, absentCalled, run2Vars, stopRet, subDone>>

CtxDone == ctxErr = "Canceled"

\* The loop has returned (its deferred calls run or have run).
LoopLeft == pc \in {"setend", "cancelctx", "done"}
WaitListeningDone == listening \/ CtxDone

\* The /run requests (Start calls) that can arrive, and the argument
\* vectors they can carry.
Starts == {1, 2}
ArgVectors == { <<>>, <<"cmd">> }

\* Ticks of the clock in one millisecond, and the last tick followed.
TicksPerMs == 2
MaxClock == 2

\* time.Now().Format("20060102-150405.999"): the time cut to the millisecond.
IdOf(t) == t \div TicksPerMs
Ids == {IdOf(t) : t \in 0..MaxClock}

\* A Run as newProcess leaves it, apart from the position of its loop.
InitRun ==
    /\ logs = <<>>
    /\ callbacks = {}
    /\ listening = FALSE
    /\ lck = "free"
    /\ endSet = FALSE
    /\ error = FALSE
    /\ canceled = FALSE
    /\ ctxErr = "nil"
    /\ srvErr = "nil"
    /\ text = <<>>
    /\ err = "nil"
    /\ reads = 0
    /\ todo = {}
    /\ cur = 0
    /\ stage = "log"
    /\ hs = [s \in Subs |-> "idle"]
    /\ written = [s \in Subs |-> <<>>]
    /\ received = [s \in Subs |-> <<>>]
    /\ chunks = <<>>
    /\ raw = <<>>
    /\ subAt = [s \in Subs |-> 0]
    /\ subLive = [s \in Subs |-> FALSE]
    /\ logsRet = <<>>
    /\ cancelRunning = FALSE
    /\ logAtCancel = <<>>
    /\ lateCancel = FALSE
    /\ absentCalled = {}
    /\ pc2 = "unborn"
    /\ reads2 = 0
    /\ stopRet = "none"
    /\ subDone = [s \in Subs |-> 0]

\* One Run, started by the first /run request and present in the map.
Init ==
    /\ pc = "gate"
    /\ InitRun
    /\ clock = 0
    /\ processes = [i \in Ids |-> IF i = IdOf(0) THEN 1 ELSE 0]
    /\ regLck = "free"
    /\ created = 1
    /\ st = [h \in Starts |-> IF h = 1 THEN "returned" ELSE "idle"]
    /\ sargs = [h \in Starts |-> IF h = 1 THEN <<"cmd">> ELSE <<>>]
    /\ sid = [h \in Starts |-> IdOf(0)]
    /\ srun = [h \in Starts |-> IF h = 1 THEN 1 ELSE 0]
    /\ released = [h \in Starts |-> FALSE]
    /\ found = {}
    /\ raced = FALSE

\* The server before any /run request: no Run, an empty map.
InitReg ==
    /\ pc = "unborn"
    /\ InitRun
    /\ clock = 0
    /\ processes = [i \in Ids |-> 0]
    /\ regLck = "free"
    /\ created = 0
    /\ st = [h \in Starts |-> "idle"]
    /\ sargs = [h \in Starts |-> <<>>]
    /\ sid = [h \in Starts |-> IdOf(0)]
    /\ srun = [h \in Starts |-> 0]
    /\ released = [h \in Starts |-> FALSE]
    /\ found = {}
    /\ raced = FALSE

----------------------------------------------------------------------------
\* The broadcast goroutine of newProcess.

\* Variant: waitListening is not a child of the Run's context.
GateListeningIgnoresCancel ==
    /\ pc = "gate"
    /\ listening
    /\ pc' = "check"
    /\ UNCHANGED <<logs, callbacks, listening, lck, endSet, error, canceled,
                   ctxErr, srvErr, text, err, reads, todo, cur, stage, hs,
                   written, received, chunks, raw, subAt, subLive, logsRet,
                   cancelRunning, logAtCancel, lateCancel>>
    /\ UNCHANGED restVars

\* select: case <-waitListening.Done()
GateListening ==
    /\ pc = "gate"
    /\ WaitListeningDone
    /\ pc' = "check"
    /\ UNCHANGED <<logs, callbacks, listening, lck, endSet, error, canceled,
                   ctxErr, srvErr, text, err, reads, todo, cur, stage, hs,
                   written, received, chunks, raw, subAt, subLive, logsRet,
                   cancelRunning, logAtCancel, lateCancel>>
    /\ UNCHANGED restVars

\* Variant: the gate has no grace period.
GateTimeoutNeedsSubscriber ==
    /\ pc = "gate"
    /\ listening
    /\ pc' = "check"
    /\ UNCHANGED <<logs, callbacks, listening, lck, endSet, error, canceled,
                   ctxErr, srvErr, text, err, reads, todo, cur, stage, hs,
                   written, received, chunks, raw, subAt, subLive, logsRet,
                   cancelRunning, logAtCancel, lateCancel>>
    /\ UNCHANGED restVars

\* select: case <-time.After(500 * time.Millisecond)
GateTimeout ==
    /\ pc = "gate"
    /\ pc' = "check"
    /\ UNCHANGED <<logs, callbacks, listening, lck, endSet, error, canceled,
                   ctxErr, srvErr, text, err, reads, todo, cur, stage, hs,
                   written, received, chunks, raw, subAt, subLive, logsRet,
                   cancelRunning, logAtCancel, lateCancel>>
    /\ UNCHANGED restVars

\* Variant: the cancellation branch records the end of the Run but lacks
\* its return, so the loop goes on to read.
CheckCanceledNoReturn ==
    /\ pc = "check"
    /\ CtxDone
    /\ canceled' = TRUE
    /\ endSet' = TRUE
    /\ pc' = "read"
    /\ UNCHANGED <<logs, callbacks, listening, lck, error,
                   ctxErr, srvErr, text, err, reads, todo, cur, stage, hs,
                   written, received, chunks, raw, subAt, subLive, logsRet,
                   cancelRunning, logAtCancel, lateCancel>>
    /\ UNCHANGED restVars

\* select: case <-ctx.Done(): p.canceled = true; return
CheckCanceled ==
    /\ pc = "check"
    /\ CtxDone
    /\ canceled' = TRUE
    /\ pc' = "setend"
    /\ UNCHANGED <<logs, callbacks, listening, lck, endSet, error,
                   ctxErr, srvErr, text, err, reads, todo, cur, stage, hs,
                   written, received, chunks, raw, subAt, subLive, logsRet,
                   cancelRunning, logAtCancel, lateCancel>>
    /\ UNCHANGED restVars

\* select: default
CheckContinue ==
    /\ pc = "check"
    /\ ~CtxDone
    /\ pc' = "read"
    /\ UNCHANGED <<logs, callbacks, listening, lck, endSet, error, canceled,
                   ctxErr, srvErr, text, err, reads, todo, cur, stage, hs,
                   written, received, chunks, raw, subAt, subLive, logsRet,
                   cancelRunning, logAtCancel, lateCancel>>
    /\ UNCHANGED restVars

\* What the loop does with a Read result (n, e): lines 99-108.
ReadResult(data, e) ==
    /\ pc = "read"
    /\ err' = e
    /\ error' = IF e = "err" THEN TRUE ELSE error
    /\ text' = ReplaceAll(IF e = "EOF" THEN EOFText
                          ELSE IF e = "err" THEN ErrText ELSE data)
    /\ chunks' = Append(chunks, text')
    /\ raw' = IF e = "nil" THEN Append(raw, data) ELSE raw
    /\ pc' = "append"

\* combinedOutput.Read returns n > 0 bytes and no error.
ReadData ==
    /\ reads < MaxReads
    /\ \E data \in Outputs : ReadResult(data, "nil")
    /\ reads' = reads + 1
    /\ UNCHANGED <<logs, callbacks, listening, lck, endSet, canceled,
                   ctxErr, srvErr, todo, cur, stage, hs,
                   written, received, subAt, subLive, logsRet,
                   cancelRunning, logAtCancel, lateCancel>>
    /\ UNCHANGED restVars

\* combinedOutput.Read returns io.EOF.
ReadEOF ==
    /\ ReadResult(<<>>, "EOF")
    /\ UNCHANGED <<logs, callbacks, listening, lck, endSet, canceled,
                   ctxErr, srvErr, reads, todo, cur, stage, hs,
                   written, received, subAt, subLive, logsRet,
                   cancelRunning, logAtCancel, lateCancel>>
    /\ UNCHANGED restVars

\* Variant: the error branch lacks p.error = true.
ReadErrUnflagged ==
    /\ pc = "read"
    /\ err' = "err"
    /\ text' = ReplaceAll(ErrText)
    /\ chunks' = Append(chunks, text')
    /\ pc' = "append"
    /\ UNCHANGED <<logs, callbacks, listening, lck, endSet, canceled,
                   ctxErr, srvErr, reads, todo, cur, stage, hs,
                   written, received, subAt, subLive, logsRet,
                   cancelRunning, logAtCancel, lateCancel, error, raw>>
    /\ UNCHANGED restVars

\* combinedOutput.Read returns another error.
ReadErr ==
    /\ ReadResult(<<>>, "err")
    /\ UNCHANGED <<logs, callbacks, listening, lck, endSet, canceled,
                   ctxErr, srvErr, reads, todo, cur, stage, hs,
                   written, received, subAt, subLive, logsRet,
                   cancelRunning, logAtCancel, lateCancel>>
    /\ UNCHANGED restVars

\* p.logs += text (no lock is held): the new string is built and the first
\* word of p.logs' header is stored, its length ("storedLen") or its pointer
\* ("storedPtr"); the order is the compiler's.
AppendBegin ==
    /\ pc = "append"
    /\ pc' \in {"storedLen", "storedPtr"}
    /\ UNCHANGED <<logs, callbacks, listening, lck, endSet, error, canceled,
                   ctxErr, srvErr, text, err, reads, todo, cur, stage, hs,
                   written, received, chunks, raw, subAt, subLive, logsRet,
                   cancelRunning, logAtCancel, lateCancel>>
    /\ UNCHANGED restVars

\* p.logs += text: the second word is stored.
AppendEnd ==
    /\ pc \in {"storedLen", "storedPtr"}
    /\ logs' = logs \o text
    /\ pc' = "lock"
    /\ UNCHANGED <<callbacks, listening, lck, endSet, error, canceled,
                   ctxErr, srvErr, text, err, reads, todo, cur, stage, hs,
                   written, received, chunks, raw, subAt, subLive, logsRet,
                   cancelRunning, logAtCancel, lateCancel>>
    /\ UNCHANGED restVars

\* Variant: the range stops after the first callback.
LockOneCallback ==
    /\ pc = "lock"
    /\ lck = "free"
    /\ lck' = "loop"
    /\ todo' = IF callbacks = {} THEN {}
               ELSE {CHOOSE s \in callbacks : \A t \in callbacks : s <= t}
    /\ pc' = "deliver"
    /\ UNCHANGED <<logs, callbacks, listening, endSet, error, canceled,
                   ctxErr, srvErr, text, err, reads, cur, stage, hs,
                   written, received, chunks, raw, subAt, subLive, logsRet,
                   cancelRunning, logAtCancel, lateCancel>>
    /\ UNCHANGED restVars

\* Variant: the terminal chunk is stored but not broadcast.
LockSkipsTerminal ==
    /\ pc = "lock"
    /\ lck = "free"
    /\ lck' = "loop"
    /\ todo' = IF err # "nil" THEN {} ELSE callbacks
    /\ pc' = "deliver"
    /\ UNCHANGED <<logs, callbacks, listening, endSet, error, canceled,
                   ctxErr, srvErr, text, err, reads, cur, stage, hs,
                   written, received, chunks, raw, subAt, subLive, logsRet,
                   cancelRunning, logAtCancel, lateCancel>>
    /\ UNCHANGED restVars

\* p.lck.Lock(); the range over p.callbacks starts.
Lock ==
    /\ pc = "lock"
    /\ lck = "free"
    /\ lck' = "loop"
    /\ todo' = callbacks
    /\ pc' = "deliver"
    /\ UNCHANGED <<logs, callbacks, listening, endSet, error, canceled,
                   ctxErr, srvErr, text, err, reads, cur, stage, hs,
                   written, received, chunks, raw, subAt, subLive, logsRet,
                   cancelRunning, logAtCancel, lateCancel>>
    /\ UNCHANGED restVars

\* callback(text, err != nil) is entered for the next map entry.
CallbackInvoke(s) ==
    /\ pc = "deliver"
    /\ cur = 0
    /\ s \in todo
    /\ todo' = todo \ {s}
    /\ cur' = s
    /\ stage' = "log"
    /\ received' = [received EXCEPT ![s] =
                      Append(@, [text |-> text, close |-> err # "nil"])]
    /\ UNCHANGED <<pc, logs, callbacks, listening, lck, endSet, error,
                   canceled, ctxErr, srvErr, text, err, reads, hs,
                   written, chunks, raw, subAt, subLive, logsRet,
                   cancelRunning, logAtCancel, lateCancel>>
    /\ UNCHANGED restVars

\* The record the callback formats for a chunk (webcli.go 306-307).
LogRecord(t) == [event |-> "log", data |-> ReplaceAll(t)]
CloseRecord == [event |-> "close", data |-> <<>>]

\* Variant: the callback returns after the log record, also when close is set.
CallbackSendLogNoClose(s) ==
    /\ pc = "deliver"
    /\ cur = s
    /\ stage = "log"
    /\ hs[s] = "serving"
    /\ written' = [written EXCEPT ![s] = Append(@, LogRecord(text))]
    /\ stage' = "log"
    /\ cur' = 0
    /\ UNCHANGED <<pc, logs, callbacks, listening, lck, endSet, error,
                   canceled, ctxErr, srvErr, text, err, reads, todo, hs,
                   received, chunks, raw, subAt, subLive, logsRet,
                   cancelRunning, logAtCancel, lateCancel>>
    /\ UNCHANGED restVars

\* dataC <- text meets the handler's case data := <-dataC, which writes it.
CallbackSendLog(s) ==
    /\ pc = "deliver"
    /\ cur = s
    /\ stage = "log"
    /\ hs[s] = "serving"
    /\ written' = [written EXCEPT ![s] = Append(@, LogRecord(text))]
    /\ IF err # "nil"
         THEN stage' = "close" /\ cur' = cur
         ELSE stage' = "log" /\ cur' = 0
    /\ UNCHANGED <<pc, logs, callbacks, listening, lck, endSet, error,
                   canceled, ctxErr, srvErr, text, err, reads, todo, hs,
                   received, chunks, raw, subAt, subLive, logsRet,
                   cancelRunning, logAtCancel, lateCancel>>
    /\ UNCHANGED restVars

\* if close: dataC <- "event: close..."; cancel() (of a context nobody reads).
CallbackSendClose(s) ==
    /\ pc = "deliver"
    /\ cur = s
    /\ stage = "close"
    /\ hs[s] = "serving"
    /\ written' = [written EXCEPT ![s] = Append(@, CloseRecord)]
    /\ stage' = "log"
    /\ cur' = 0
    /\ UNCHANGED <<pc, logs, callbacks, listening, lck, endSet, error,
                   canceled, ctxErr, srvErr, text, err, reads, todo, hs,
                   received, chunks, raw, subAt, subLive, logsRet,
                   cancelRunning, logAtCancel, lateCancel>>
    /\ UNCHANGED restVars

\* The range is over: p.lck.Unlock().
Unlock ==
    /\ pc = "deliver"
    /\ cur = 0
    /\ todo = {}
    /\ lck' = "free"
    /\ pc' = "exitcheck"
    /\ UNCHANGED <<logs, callbacks, listening, endSet, error, canceled,
                   ctxErr, srvErr, text, err, reads, todo, cur, stage, hs,
                   written, received, chunks, raw, subAt, subLive, logsRet,
                   cancelRunning, logAtCancel, lateCancel>>
    /\ UNCHANGED restVars

\* Variant: the terminal branch lacks its return.
ExitReturnLoops ==
    /\ pc = "exitcheck"
    /\ err # "nil"
    /\ canceled' = IF CtxDone THEN TRUE ELSE canceled
    /\ pc' = "check"
    /\ UNCHANGED <<logs, callbacks, listening, lck, endSet, error,
                   ctxErr, srvErr, text, err, reads, todo, cur, stage, hs,
                   written, received, chunks, raw, subAt, subLive, logsRet,
                   cancelRunning, logAtCancel, lateCancel>>
    /\ UNCHANGED restVars

\* Variant: the loop cancels its context before it looks at ctx.Err().
ExitReturnAfterCancel ==
    /\ pc = "exitcheck"
    /\ err # "nil"
    /\ ctxErr' = "Canceled"
    /\ canceled' = TRUE
    /\ pc' = "setend"
    /\ UNCHANGED <<logs, callbacks, listening, lck, endSet, error,
                   srvErr, text, err, reads, todo, cur, stage, hs,
                   written, received, chunks, raw, subAt, subLive, logsRet,
                   cancelRunning, logAtCancel, lateCancel>>
    /\ UNCHANGED restVars

\* if err != nil { if ctx.Err() is Canceled { p.canceled = true }; return }
ExitReturn ==
    /\ pc = "exitcheck"
    /\ err # "nil"
    /\ canceled' = IF CtxDone THEN TRUE ELSE canceled
    /\ pc' = "setend"
    /\ UNCHANGED <<logs, callbacks, listening, lck, endSet, error,
                   ctxErr, srvErr, text, err, reads, todo, cur, stage, hs,
                   written, received, chunks, raw, subAt, subLive, logsRet,
                   cancelRunning, logAtCancel, lateCancel>>
    /\ UNCHANGED restVars

\* err == nil: next iteration.
ExitContinue ==
    /\ pc = "exitcheck"
    /\ err = "nil"
    /\ pc' = "check"
    /\ UNCHANGED <<logs, callbacks, listening, lck, endSet, error, canceled,
                   ctxErr, srvErr, text, err, reads, todo, cur, stage, hs,
                   written, received, chunks, raw, subAt, subLive, logsRet,
                   cancelRunning, logAtCancel, lateCancel>>
    /\ UNCHANGED restVars

\* defer func() { p.end = time.Now().UTC() }()
DeferEnd ==
    /\ pc = "setend"
    /\ endSet' = TRUE
    /\ pc' = "cancelctx"
    /\ UNCHANGED <<logs, callbacks, listening, lck, error, canceled,
                   ctxErr, srvErr, text, err, reads, todo, cur, stage, hs,
                   written, received, chunks, raw, subAt, subLive, logsRet,
                   cancelRunning, logAtCancel, lateCancel>>
    /\ UNCHANGED restVars

\* defer cancel()
DeferCancel ==
    /\ pc = "cancelctx"
    /\ ctxErr' = "Canceled"
    /\ pc' = "done"
    /\ UNCHANGED <<logs, callbacks, listening, lck, endSet, error, canceled,
                   srvErr, text, err, reads, todo, cur, stage, hs,
                   written, received, chunks, raw, subAt, subLive, logsRet,
                   cancelRunning, logAtCancel, lateCancel>>
    /\ UNCHANGED restVars

----------------------------------------------------------------------------
\* The /events/{id} handler (webcli.go 271-329), one instance per request.

\* The chunks whose broadcast is over: all that were read, but for one that
\* the loop has not finished storing and delivering.
Broadcast ==
    IF pc \in {"append", "storedLen", "storedPtr", "lock", "deliver"}
    THEN Len(chunks) - 1 ELSE Len(chunks)

\* Variant: Subscribe replays the log to the new callback.
SubscribeInsertReplays(s) ==
    /\ hs[s] = "idle"
    /\ \A r \in Subs : r < s => hs[r] # "idle"   \* instances arrive in order
    /\ lck = "free"
    /\ callbacks' = callbacks \cup {s}
    /\ hs' = [hs EXCEPT ![s] = "subscribed"]
    /\ received' = [received EXCEPT ![s] =
                      <<[text |-> logs, close |-> FALSE]>>]
    /\ subAt' = [subAt EXCEPT ![s] = Len(chunks)]
    /\ subLive' = [subLive EXCEPT ![s] = ~LoopLeft]
    /\ UNCHANGED <<pc, logs, listening, lck, endSet, error, canceled,
                   ctxErr, srvErr, text, err, reads, todo, cur, stage,
                   written, chunks, raw, logsRet,
                   cancelRunning, logAtCancel, lateCancel>>
    /\ subDone' = [subDone EXCEPT ![s] = Broadcast]
    /\ UNCHANGED <<regVars, absentCalled, run2Vars, stopRet>>

\* Variant: Subscribe opens the gate instead of storing the callback.
SubscribeInsertOpensGate(s) ==
    /\ hs[s] = "idle"
    /\ \A r \in Subs : r < s => hs[r] # "idle"
    /\ lck = "free"
    /\ listening' = TRUE
    /\ hs' = [hs EXCEPT ![s] = "subscribed"]
    /\ subAt' = [subAt EXCEPT ![s] = Len(chunks)]
    /\ subLive' = [subLive EXCEPT ![s] = ~LoopLeft]
    /\ UNCHANGED <<pc, logs, callbacks, lck, endSet, error, canceled,
                   ctxErr, srvErr, text, err, reads, todo, cur, stage,
                   written, received, chunks, raw, logsRet,
                   cancelRunning, logAtCancel, lateCancel>>
    /\ subDone' = [subDone EXCEPT ![s] = Broadcast]
    /\ UNCHANGED <<regVars, absentCalled, run2Vars, stopRet>>

\* proc.Subscribe: p.lck.Lock(); p.callbacks[id] = callback; p.lck.Unlock()
SubscribeInsert(s) ==
    /\ hs[s] = "idle"
    /\ \A r \in Subs : r < s => hs[r] # "idle"   \* instances arrive in order
    /\ lck = "free"
    /\ callbacks' = callbacks \cup {s}
    /\ hs' = [hs EXCEPT ![s] = "subscribed"]
    /\ subAt' = [subAt EXCEPT ![s] = Len(chunks)]
    /\ subLive' = [subLive EXCEPT ![s] = ~LoopLeft]
    /\ UNCHANGED <<pc, logs, listening, lck, endSet, error, canceled,
                   ctxErr, srvErr, text, err, reads, todo, cur, stage,
                   written, received, chunks, raw, logsRet,
                   cancelRunning, logAtCancel, lateCancel>>
    /\ subDone' = [subDone EXCEPT ![s] = Broadcast]
    /\ UNCHANGED <<regVars, absentCalled, run2Vars, stopRet>>

\* Variant: a Subscribe that finds the gate open shuts it again.
SubscribeListeningToggles(s) ==
    /\ hs[s] = "subscribed"
    /\ listening' = ~listening
    /\ hs' = [hs EXCEPT ![s] = "serving"]
    /\ UNCHANGED <<pc, logs, callbacks, lck, endSet, error, canceled,
                   ctxErr, srvErr, text, err, reads, todo, cur, stage,
                   written, received, chunks, raw, subAt, subLive, logsRet,
                   cancelRunning, logAtCancel, lateCancel>>
    /\ UNCHANGED restVars

\* proc.Subscribe: the deferred p.listening(); the handler then enters its
\* select loop.
SubscribeListening(s) ==
    /\ hs[s] = "subscribed"
    /\ listening' = TRUE
    /\ hs' = [hs EXCEPT ![s] = "serving"]
    /\ UNCHANGED <<pc, logs, callbacks, lck, endSet, error, canceled,
                   ctxErr, srvErr, text, err, reads, todo, cur, stage,
                   written, received, chunks, raw, subAt, subLive, logsRet,
                   cancelRunning, logAtCancel, lateCancel>>
    /\ UNCHANGED restVars

\* select: case <-r.Context().Done(): return (the client went away).
ClientGone(s) ==
    /\ hs[s] = "serving"
    /\ hs' = [hs EXCEPT ![s] = "leaving"]
    /\ UNCHANGED <<pc, logs, callbacks, listening, lck, endSet, error,
                   canceled, ctxErr, srvErr, text, err, reads, todo, cur,
                   stage, written, received, chunks, raw, subAt, subLive, logsRet, cancelRunning, logAtCancel, lateCancel>>
    /\ UNCHANGED restVars

\* select: case <-ctx.Done(): return (the server context is cancelled).
ServerGone(s) ==
    /\ hs[s] = "serving"
    /\ srvErr = "Canceled"
    /\ hs' = [hs EXCEPT ![s] = "leaving"]
    /\ UNCHANGED <<pc, logs, callbacks, listening, lck, endSet, error,
                   canceled, ctxErr, srvErr, text, err, reads, todo, cur,
                   stage, written, received, chunks, raw, subAt, subLive, logsRet, cancelRunning, logAtCancel, lateCancel>>
    /\ UNCHANGED restVars

\* Variant: Unsubscribe deletes its entry without taking p.lck.
UnsubscribeUnlocked(s) ==
    /\ hs[s] = "leaving"
    /\ cur # s
    /\ callbacks' = callbacks \ {s}
    /\ hs' = [hs EXCEPT ![s] = "gone"]
    /\ UNCHANGED <<pc, logs, listening, lck, endSet, error, canceled,
                   ctxErr, srvErr, text, err, reads, todo, cur, stage,
                   written, received, chunks, raw, subAt, subLive, logsRet,
                   cancelRunning, logAtCancel, lateCancel>>
    /\ UNCHANGED restVars

\* The deferred proc.Unsubscribe(subID), then cancel() and close(dataC).
Unsubscribe(s) ==
    /\ hs[s] = "leaving"
    /\ lck = "free"
    /\ callbacks' = callbacks \ {s}
    /\ hs' = [hs EXCEPT ![s] = "gone"]
    /\ UNCHANGED <<pc, logs, listening, lck, endSet, error, canceled,
                   ctxErr, srvErr, text, err, reads, todo, cur, stage,
                   written, received, chunks, raw, subAt, subLive, logsRet,
                   cancelRunning, logAtCancel, lateCancel>>
    /\ UNCHANGED restVars

\* Variant: Unsubscribe ends as Subscribe does, with p.listening().
UnsubscribeAbsentListens(s) ==
    /\ s \notin callbacks
    /\ hs[s] \in {"idle", "gone"}
    /\ lck = "free"
    /\ callbacks' = callbacks \ {s}
    /\ listening' = TRUE
    /\ absentCalled' = absentCalled \cup {s}
    /\ UNCHANGED <<pc, logs, lck, endSet, error, canceled,
                   ctxErr, srvErr, text, err, reads, todo, cur, stage, hs,
                   written, received, chunks, raw, subAt, subLive, logsRet,
                   cancelRunning, logAtCancel, lateCancel, regVars,
                   run2Vars, stopRet, subDone>>

\* process.Unsubscribe(id) called with an id that has no entry (never
\* subscribed, or removed already): p.lck.Lock(); delete(p.callbacks, id);
\* p.lck.Unlock()
UnsubscribeAbsent(s) ==
    /\ s \notin callbacks
    /\ hs[s] \in {"idle", "gone"}
    /\ lck = "free"
    /\ callbacks' = callbacks \ {s}
    /\ absentCalled' = absentCalled \cup {s}
    /\ UNCHANGED <<pc, logs, listening, lck, endSet, error, canceled,
                   ctxErr, srvErr, text, err, reads, todo, cur, stage, hs,
                   written, received, chunks, raw, subAt, subLive, logsRet,
                   cancelRunning, logAtCancel, lateCancel, regVars,
                   run2Vars, stopRet, subDone>>

----------------------------------------------------------------------------
\* The log pages (webcli.go 352-376) and Server.Stop.

\* What process.Logs() returns.  It reads p.logs without the lock, so the
\* read can fall between the two stores of the loop's unlocked p.logs += text:
\* with the new pointer and the old length it sees the old text, with the old
\* pointer and the new length it sees the old text and what lies behind it.
LogsValue ==
    IF pc = "storedLen" THEN logs \o Junk(Len(text)) ELSE logs

ReadLogs ==
    /\ logsRet' = LogsValue

\* The child process has given no terminal read outcome and the loop has not
\* left.
ProcessRunning == err = "nil" /\ ~LoopLeft

\* The output produced so far: the log plus a chunk already read that the
\* loop is about to store.
Produced == IF pc \in {"append", "storedLen", "storedPtr"} THEN logs \o text ELSE logs

\* logHandler(w, r, false) once it has its Run: proc.Logs()
LogHandlerLogs ==
    /\ ReadLogs
    /\ UNCHANGED <<pc, logs, callbacks, listening, lck, endSet, error,
                   canceled, ctxErr, srvErr, text, err, reads, todo, cur,
                   stage, hs, written, received, chunks, raw, subAt, subLive,
                   cancelRunning, logAtCancel, lateCancel, absentCalled,
                   run2Vars, stopRet, subDone>>

\* Variant: the cancel handler marks the Run canceled itself.
CancelMarksRun ==
    /\ ctxErr' = "Canceled"
    /\ canceled' = TRUE
    /\ ReadLogs
    /\ cancelRunning' = (cancelRunning \/ ProcessRunning)
    /\ logAtCancel' = IF ~cancelRunning /\ ProcessRunning
                        THEN Produced ELSE logAtCancel
    /\ lateCancel' = (lateCancel \/ endSet)
    /\ UNCHANGED <<pc, logs, callbacks, listening, lck, endSet, error,
                   srvErr, text, err, reads, todo, cur,
                   stage, hs, written, received, chunks, raw, subAt, subLive,
                   absentCalled,
                   run2Vars, stopRet, subDone>>

\* logHandler(w, r, true) once it has its Run: proc.cancel(), proc.Logs()
LogHandlerCancel ==
    /\ ctxErr' = "Canceled"
    /\ ReadLogs
    /\ cancelRunning' = (cancelRunning \/ ProcessRunning)
    /\ logAtCancel' = IF ~cancelRunning /\ ProcessRunning
                        THEN Produced ELSE logAtCancel
    /\ lateCancel' = (lateCancel \/ endSet)
    /\ UNCHANGED <<pc, logs, callbacks, listening, lck, endSet, error,
                   canceled, srvErr, text, err, reads, todo, cur,
                   stage, hs, written, received, chunks, raw, subAt, subLive,
                   absentCalled,
                   run2Vars, stopRet, subDone>>

\* /logs/{id} and /cancel/{id} of the one Run of Init.
LogsPage == LogHandlerLogs /\ UNCHANGED regVars
Cancel == LogHandlerCancel /\ UNCHANGED regVars

\* An /events/{id} request is being served: its connection is not idle.
StreamOpen(s) == hs[s] \in {"subscribed", "serving", "leaving"}

\* Variant: s.cancel() is called only after a successful shutdown.
StopCancelsOnSuccess ==
    /\ srvErr = "nil"
    /\ \E ok \in BOOLEAN :
          /\ ok => \A s \in Subs : ~StreamOpen(s)
          /\ stopRet' = IF ok THEN "nil" ELSE "error"
          /\ srvErr' = IF ok THEN "Canceled" ELSE srvErr
          /\ ctxErr' = IF ok THEN "Canceled" ELSE ctxErr
    /\ UNCHANGED <<pc, logs, callbacks, listening, lck, endSet, error,
                   canceled, text, err, reads, todo, cur,
                   stage, hs, written, received, chunks, raw, subAt, subLive,
                   logsRet, cancelRunning, logAtCancel, lateCancel>>
    /\ UNCHANGED <<regVars, absentCalled, run2Vars, subDone>>

\* Server.Stop returns: httpServer.Shutdown(ctx) has returned nil (every
\* connection was idle) or, its context expired, an error; either way the
\* deferred s.cancel() cancels the server context and with it every Run's
\* context.
Stop ==
    /\ srvErr = "nil"
    /\ \E ok \in BOOLEAN :
          /\ ok => \A s \in Subs : ~StreamOpen(s)
          /\ stopRet' = IF ok THEN "nil" ELSE "error"
    /\ srvErr' = "Canceled"
    /\ ctxErr' = "Canceled"
    /\ UNCHANGED <<pc, logs, callbacks, listening, lck, endSet, error,
                   canceled, text, err, reads, todo, cur,
                   stage, hs, written, received, chunks, raw, subAt, subLive,
                   logsRet, cancelRunning, logAtCancel, lateCancel>>
    /\ UNCHANGED <<regVars, absentCalled, run2Vars, subDone>>

----------------------------------------------------------------------------
\* The Registry: the /run handler (webcli.go 506-514) with newProcess
\* (launcher.go 45-62), and the handlers that look Runs up in the map.  The
\* loop of the first Run created is followed step by step; a later Run is
\* followed as a map entry only.

\* What the Registry's handlers leave alone in the Run.
runRest == <<logs, callbacks, listening, lck, endSet, error, canceled,
             ctxErr, srvErr, text, err, reads, todo, cur, stage, hs, written,
             received, chunks, raw, subAt, subLive, logsRet, cancelRunning,
             logAtCancel, lateCancel, absentCalled>>

\* What a lookup leaves alone in the Registry.
regRest == <<clock, processes, regLck, created, st, sargs, sid, srun,
             released>>

\* time passes
Tick ==
    /\ clock < MaxClock
    /\ clock' = clock + 1
    /\ UNCHANGED <<processes, regLck, created, st, sargs, sid, srun, released,
                   found, raced, pc, runRest, run2Vars, stopRet, subDone>>

\* A /run request takes its id from the clock (line 506) and calls newProcess.
StartCall(h, args) ==
    /\ st[h] = "idle"
    /\ \A g \in Starts : g < h => st[g] # "idle"   \* requests arrive in order
    /\ sid' = [sid EXCEPT ![h] = IdOf(clock)]
    /\ sargs' = [sargs EXCEPT ![h] = args]

\* Variant: newProcess lacks the len(args) == 0 check and launches.
StartInvalidLaunches(h) ==
    /\ \E args \in ArgVectors : Len(args) = 0 /\ StartCall(h, args)
    /\ created' = created + 1
    /\ srun' = [srun EXCEPT ![h] = created + 1]
    /\ st' = [st EXCEPT ![h] = "launched"]
    /\ pc' = IF created = 0 THEN "gate" ELSE pc
    /\ UNCHANGED <<clock, processes, regLck, released, found, raced, runRest, run2Vars, stopRet, subDone>>

\* newProcess: len(args) == 0, "no command provided"; the handler answers 500.
StartInvalid(h) ==
    /\ \E args \in ArgVectors : Len(args) = 0 /\ StartCall(h, args)
    /\ st' = [st EXCEPT ![h] = "invalid"]
    /\ UNCHANGED <<clock, processes, regLck, created, srun, released, found,
                   raced, pc, runRest, run2Vars, stopRet, subDone>>

\* Variant: the launch error is returned without cancel().
StartLaunchFailLeaks(h) ==
    /\ \E args \in ArgVectors : Len(args) > 0 /\ StartCall(h, args)
    /\ st' = [st EXCEPT ![h] = "launchfail"]
    /\ UNCHANGED <<clock, processes, regLck, created, srun, released, found,
                   raced, pc, runRest, run2Vars, stopRet, subDone>>

\* newProcess: context.WithCancel, launch fails, cancel(), the error is
\* returned; the handler answers 500.
StartLaunchFail(h) ==
    /\ \E args \in ArgVectors : Len(args) > 0 /\ StartCall(h, args)
    /\ released' = [released EXCEPT ![h] = TRUE]
    /\ st' = [st EXCEPT ![h] = "launchfail"]
    /\ UNCHANGED <<clock, processes, regLck, created, srun, found, raced, pc,
                   runRest, run2Vars, stopRet, subDone>>

\* newProcess: launch succeeds, the process value is built, the loop is
\* started with go and p is returned (exec's Start refuses a done context).
StartLaunched(h) ==
    /\ \E args \in ArgVectors : Len(args) > 0 /\ StartCall(h, args)
    /\ srvErr = "nil"
    /\ created' = created + 1
    /\ srun' = [srun EXCEPT ![h] = created + 1]
    /\ st' = [st EXCEPT ![h] = "launched"]
    /\ pc' = IF created = 0 THEN "gate" ELSE pc
    /\ pc2' = IF created = 1 THEN "gate" ELSE pc2
    /\ UNCHANGED <<clock, processes, regLck, released, found, raced, runRest,
                   reads2, stopRet, subDone>>

\* Variant: the handler waits for the Run's loop to end before it inserts.
StartLockWaits(h) ==
    /\ st[h] = "launched"
    /\ regLck = "free"
    /\ srun[h] = 1 => pc = "done"
    /\ regLck' = "held"
    /\ st' = [st EXCEPT ![h] = "inserting"]
    /\ UNCHANGED <<clock, processes, created, sargs, sid, srun, released,
                   found, raced, pc, runRest, run2Vars, stopRet, subDone>>

\* lck.Lock() of the /run handler: the insert begins.
StartLock(h) ==
    /\ st[h] = "launched"
    /\ regLck = "free"
    /\ regLck' = "held"
    /\ st' = [st EXCEPT ![h] = "inserting"]
    /\ UNCHANGED <<clock, processes, created, sargs, sid, srun, released,
                   found, raced, pc, runRest, run2Vars, stopRet, subDone>>

\* processes[id] = proc; lck.Unlock(); the handler renders proc.logs, which
\* it reads as Logs() does, and returns.
StartInsert(h) ==
    /\ st[h] = "inserting"
    /\ processes' = [processes EXCEPT ![sid[h]] = srun[h]]
    /\ regLck' = "free"
    /\ st' = [st EXCEPT ![h] = "returned"]
    /\ IF srun[h] = 1 THEN ReadLogs ELSE UNCHANGED logsRet
    /\ UNCHANGED <<clock, created, sargs, sid, srun, released, found, raced,
                   pc, logs, callbacks, listening, lck, endSet, error,
                   canceled, ctxErr, srvErr, text, err, reads, todo, cur,
                   stage, hs, written, received, chunks, raw, subAt, subLive,
                   cancelRunning, logAtCancel, lateCancel, absentCalled,
                   run2Vars, stopRet, subDone>>

\* What a read of processes[i] returns.
Resolve(i) == {processes[i]} \ {0}

\* /events/{id}: lck.Lock(); proc, ok := processes[id]; lck.Unlock()
EventsLookup(i) ==
    /\ regLck = "free"
    /\ found' = Resolve(i)
    /\ UNCHANGED <<regRest, raced, pc, runRest, run2Vars, stopRet, subDone>>

\* /logs: for id, p := range processes, with no lock.
LogsList ==
    /\ found' = UNION {Resolve(i) : i \in Ids}
    /\ raced' = (raced \/ regLck = "held")
    /\ UNCHANGED <<regRest, pc, runRest, run2Vars, stopRet, subDone>>

\* logHandler: proc, ok := processes[id], with no lock; 404 if !ok.
LogHandlerLookup(i) ==
    /\ found' = Resolve(i)
    /\ raced' = (raced \/ regLck = "held")
    /\ UNCHANGED regRest

\* /logs/{id}
RegLogsPage(i) ==
    /\ LogHandlerLookup(i)
    /\ IF processes[i] = 1 THEN LogHandlerLogs ELSE UNCHANGED <<pc, runRest, run2Vars, stopRet, subDone>>

\* /cancel/{id}
RegCancel(i) ==
    /\ LogHandlerLookup(i)
    /\ IF processes[i] = 1 THEN LogHandlerCancel ELSE UNCHANGED <<pc, runRest, run2Vars, stopRet, subDone>>

NextReg ==
    \/ Tick
    \/ \E h \in Starts : StartInvalid(h)
    \/ \E h \in Starts : StartLaunchFail(h)
    \/ \E h \in Starts : StartLaunched(h)
    \/ \E h \in Starts : StartLock(h)
    \/ \E h \in Starts : StartInsert(h)
    \/ \E i \in Ids : EventsLookup(i)
    \/ LogsList
    \/ \E i \in Ids : RegLogsPage(i)
    \/ \E i \in Ids : RegCancel(i)
    \/ GateListening
    \/ GateTimeout
    \/ CheckCanceled
    \/ CheckContinue
    \/ ReadData
    \/ ReadEOF
    \/ ReadErr
    \/ AppendBegin
    \/ AppendEnd
    \/ Lock
    \/ Unlock
    \/ ExitReturn
    \/ ExitContinue
    \/ DeferEnd
    \/ DeferCancel

SpecReg == InitReg /\ [][NextReg]_vars

----------------------------------------------------------------------------
\* The loop of the second Run created (launcher.go 74-128).  That Run has
\* its own process value, so its own lck, logs and callbacks, and nobody
\* subscribes to it: each iteration is one step.

\* The select on waitListening: the grace period elapses.
Loop2Gate ==
    /\ pc2 = "gate"
    /\ pc2' = "read"
    /\ UNCHANGED <<reads2, pc, runRest, regVars, stopRet, subDone>>

\* Read returns data (or an error) and p.logs += text stores it.
Loop2Read ==
    /\ pc2 = "read"
    /\ reads2 < MaxReads
    /\ reads2' = reads2 + 1
    /\ pc2' = "deliver"
    /\ UNCHANGED <<pc, runRest, regVars, stopRet, subDone>>

\* Variant: all Runs share the lock of the first Run.
Loop2DeliverSharedLock ==
    /\ pc2 = "deliver"
    /\ lck = "free"
    /\ pc2' = "read"
    /\ UNCHANGED <<reads2, pc, runRest, regVars, stopRet, subDone>>

\* p.lck.Lock(), the range over its empty p.callbacks, p.lck.Unlock(); the
\* loop goes on.
Loop2Deliver ==
    /\ pc2 = "deliver"
    /\ pc2' = "read"
    /\ UNCHANGED <<reads2, pc, runRest, regVars, stopRet, subDone>>

\* Read returns end-of-stream; after its delivery the loop returns and its
\* deferred calls run.
Loop2End ==
    /\ pc2 = "read"
    /\ pc2' = "done"
    /\ UNCHANGED <<reads2, pc, runRest, regVars, stopRet, subDone>>

\* /logs/{id} and /cancel/{id} asked for a Run other than the first.
OtherLogsPage(i) == processes[i] # 1 /\ RegLogsPage(i)
OtherCancel(i) == processes[i] # 1 /\ RegCancel(i)

\* The /events/{id} requests followed next to the Registry.
CrossSubs == {1}

\* The Run of Init with one event stream, the /run requests that come after
\* it, the loop of the Run they create and the pages that read the map.
NextCross ==
    \/ GateListening
    \/ GateTimeout
    \/ CheckContinue
    \/ ReadData
    \/ ReadEOF
    \/ AppendBegin
    \/ AppendEnd
    \/ Lock
    \/ \E s \in CrossSubs : CallbackInvoke(s)
    \/ \E s \in CrossSubs : CallbackSendLog(s)
    \/ \E s \in CrossSubs : CallbackSendClose(s)
    \/ Unlock
    \/ ExitReturn
    \/ ExitContinue
    \/ DeferEnd
    \/ DeferCancel
    \/ \E s \in CrossSubs : SubscribeInsert(s)
    \/ \E s \in CrossSubs : SubscribeListening(s)
    \/ \E s \in CrossSubs : ClientGone(s)
    \/ \E s \in CrossSubs : Unsubscribe(s)
    \/ \E h \in Starts : StartLaunched(h)
    \/ \E h \in Starts : StartLock(h)
    \/ \E h \in Starts : StartInsert(h)
    \/ \E i \in Ids : EventsLookup(i)
    \/ LogsList
    \/ \E i \in Ids : OtherLogsPage(i)
    \/ \E i \in Ids : OtherCancel(i)
    \/ Tick
    \/ Loop2Gate
    \/ Loop2Read
    \/ Loop2Deliver
    \/ Loop2End

SpecCross == Init /\ [][NextCross]_vars

\* A step of the broadcast goroutine.
LoopStep ==
    \/ GateListening
    \/ GateTimeout
    \/ CheckCanceled
    \/ CheckContinue
    \/ ReadData
    \/ ReadEOF
    \/ ReadErr
    \/ AppendBegin
    \/ AppendEnd
    \/ Lock
    \/ \E s \in Subs : CallbackInvoke(s)
    \/ \E s \in Subs : CallbackSendLog(s)
    \/ \E s \in Subs : CallbackSendClose(s)
    \/ Unlock
    \/ ExitReturn
    \/ ExitContinue
    \/ DeferEnd
    \/ DeferCancel

\* The Run with one event stream and Server.Stop.  The goroutine keeps
\* running (a cancelled context kills the child, so Read returns), and a
\* handler that has subscribed goes on to its select.
NextStop ==
    \/ GateListening
    \/ GateTimeout
    \/ CheckCanceled
    \/ CheckContinue
    \/ ReadData
    \/ ReadEOF
    \/ ReadErr
    \/ AppendBegin
    \/ AppendEnd
    \/ Lock
    \/ \E s \in CrossSubs : CallbackInvoke(s)
    \/ \E s \in CrossSubs : CallbackSendLog(s)
    \/ \E s \in CrossSubs : CallbackSendClose(s)
    \/ Unlock
    \/ ExitReturn
    \/ ExitContinue
    \/ DeferEnd
    \/ DeferCancel
    \/ \E s \in CrossSubs : SubscribeInsert(s)
    \/ \E s \in CrossSubs : SubscribeListening(s)
    \/ \E s \in CrossSubs : ClientGone(s)
    \/ \E s \in CrossSubs : ServerGone(s)
    \/ \E s \in CrossSubs : Unsubscribe(s)
    \/ Stop

SpecStop ==
    /\ Init
    /\ [][NextStop]_vars
    /\ WF_vars(LoopStep)
    /\ \A s \in CrossSubs : WF_vars(SubscribeListening(s))

\* The Run with one event stream and its log page when nobody cancels it
\* and the server is not stopped.
NextQuiet ==
    \/ GateListening
    \/ GateTimeout
    \/ CheckContinue
    \/ ReadData
    \/ ReadEOF
    \/ ReadErr
    \/ AppendBegin
    \/ AppendEnd
    \/ Lock
    \/ \E s \in CrossSubs : CallbackInvoke(s)
    \/ \E s \in CrossSubs : CallbackSendLog(s)
    \/ \E s \in CrossSubs : CallbackSendClose(s)
    \/ Unlock
    \/ ExitReturn
    \/ ExitContinue
    \/ DeferEnd
    \/ DeferCancel
    \/ \E s \in CrossSubs : SubscribeInsert(s)
    \/ \E s \in CrossSubs : SubscribeListening(s)
    \/ \E s \in CrossSubs : ClientGone(s)
    \/ \E s \in CrossSubs : Unsubscribe(s)
    \/ LogsPage

SpecQuiet == Init /\ [][NextQuiet]_vars

\* The observer's first step: the log page, requested before its event
\* stream is.
ObserverLogsPage ==
    /\ \A s \in CrossSubs : hs[s] = "idle"
    /\ LogsPage

\* The Run with one observer, which requests the log page and then the
\* event stream; nobody cancels the Run and the server is not stopped.
NextObserver ==
    \/ GateListening
    \/ GateTimeout
    \/ CheckContinue
    \/ ReadData
    \/ ReadEOF
    \/ ReadErr
    \/ AppendBegin
    \/ AppendEnd
    \/ Lock
    \/ \E s \in CrossSubs : CallbackInvoke(s)
    \/ \E s \in CrossSubs : CallbackSendLog(s)
    \/ \E s \in CrossSubs : CallbackSendClose(s)
    \/ Unlock
    \/ ExitReturn
    \/ ExitContinue
    \/ DeferEnd
    \/ DeferCancel
    \/ \E s \in CrossSubs : SubscribeInsert(s)
    \/ \E s \in CrossSubs : SubscribeListening(s)
    \/ ObserverLogsPage

SpecObserver == Init /\ [][NextObserver]_vars

\* The Run nobody subscribes to, with its log and cancel pages.  The
\* goroutine keeps running.
NextSolo ==
    \/ GateListening
    \/ GateTimeout
    \/ CheckCanceled
    \/ CheckContinue
    \/ ReadData
    \/ ReadEOF
    \/ ReadErr
    \/ AppendBegin
    \/ AppendEnd
    \/ Lock
    \/ Unlock
    \/ ExitReturn
    \/ ExitContinue
    \/ DeferEnd
    \/ DeferCancel
    \/ LogsPage
    \/ Cancel

SpecSolo == Init /\ [][NextSolo]_vars /\ WF_vars(LoopStep)

----------------------------------------------------------------------------
Next ==
    \/ GateListening
    \/ GateTimeout
    \/ CheckCanceled
    \/ CheckContinue
    \/ ReadData
    \/ ReadEOF
    \/ ReadErr
    \/ AppendBegin
    \/ AppendEnd
    \/ Lock
    \/ \E s \in Subs : CallbackInvoke(s)
    \/ \E s \in Subs : CallbackSendLog(s)
    \/ \E s \in Subs : CallbackSendClose(s)
    \/ Unlock
    \/ ExitReturn
    \/ ExitContinue
    \/ DeferEnd
    \/ DeferCancel
    \/ \E s \in Subs : SubscribeInsert(s)
    \/ \E s \in Subs : SubscribeListening(s)
    \/ \E s \in Subs : ClientGone(s)
    \/ \E s \in Subs : ServerGone(s)
    \/ \E s \in Subs : Unsubscribe(s)
    \/ LogsPage
    \/ Cancel
    \/ Stop

Spec == Init /\ [][Next]_vars

\* The Run with its subscribers, as a caller of the process type can drive
\* it: Unsubscribe can be called with any id.
NextApi ==
    \/ GateListening
    \/ GateTimeout
    \/ CheckCanceled
    \/ CheckContinue
    \/ ReadData
    \/ ReadEOF
    \/ ReadErr
    \/ AppendBegin
    \/ AppendEnd
    \/ Lock
    \/ \E s \in Subs : CallbackInvoke(s)
    \/ \E s \in Subs : CallbackSendLog(s)
    \/ \E s \in Subs : CallbackSendClose(s)
    \/ Unlock
    \/ ExitReturn
    \/ ExitContinue
    \/ DeferEnd
    \/ DeferCancel
    \/ \E s \in Subs : SubscribeInsert(s)
    \/ \E s \in Subs : SubscribeListening(s)
    \/ \E s \in Subs : ClientGone(s)
    \/ \E s \in Subs : Unsubscribe(s)
    \/ \E s \in Subs : UnsubscribeAbsent(s)
    \/ Cancel

SpecApi == Init /\ [][NextApi]_vars

TypeOK ==
    /\ pc \in {"unborn", "gate", "check", "read", "append", "storedLen", "storedPtr", "lock", "deliver",
               "exitcheck", "setend", "cancelctx", "done"}
    /\ callbacks \subseteq Subs
    /\ todo \subseteq callbacks
    /\ lck \in {"free", "loop"}
    /\ cur \in {0} \cup Subs
    /\ reads \in 0..MaxReads
    /\ err \in {"nil", "EOF", "err"}
    /\ clock \in 0..MaxClock
    /\ processes \in [Ids -> 0..Cardinality(Starts)]
    /\ regLck \in {"free", "held"}
    /\ created \in 0..Cardinality(Starts)
    /\ st \in [Starts -> {"idle", "invalid", "launchfail", "launched",
                          "inserting", "returned"}]
    /\ found \subseteq 1..Cardinality(Starts)
    /\ absentCalled \subseteq Subs
    /\ pc2 \in {"unborn", "gate", "read", "deliver", "done"}
    /\ reads2 \in 0..MaxReads
    /\ stopRet \in {"none", "nil", "error"}

----------------------------------------------------------------------------
\* Properties.

\* The calls of s's callback that carried close = true.
TerminalCalls(s) == {i \in DOMAIN received[s] : received[s][i].close}

\* s was registered before the loop left and has not been unsubscribed.
Attached(s) == s \in callbacks /\ subLive[s]

\* C1: a Run is never marked both Failed (p.error) and Canceled
\* (p.canceled): it reaches exactly one terminal status.
C1_OneTerminalStatus == ~(error /\ canceled)

\* C2: when the Run is terminal, every subscriber registered before it
\* became terminal and not unsubscribed has received exactly one call with
\* close = true, whichever terminal status was reached.
C2_TerminalDeliveredOnce ==
    pc = "done" =>
        \A s \in Subs : Attached(s) => Cardinality(TerminalCalls(s)) = 1

\* C3: a subscriber gets at most one call with close = true and it is the
\* last call it gets; once any callback got close = true the loop reads no
\* further chunk, so the only calls that follow hand the same terminal chunk
\* to the other subscribers of that round.
C3_TerminalIsLast ==
    /\ \A s \in Subs : \A i \in TerminalCalls(s) : i = Len(received[s])
    /\ \A s \in Subs : TerminalCalls(s) # {} =>
          /\ err # "nil"
          /\ pc \in {"deliver", "exitcheck", "setend", "cancelctx", "done"}
          /\ received[s][Len(received[s])].text = chunks[Len(chunks)]

C3_Witness ==
    /\ pc = "done"
    /\ \E s \in Subs : Len(received[s]) >= 2 /\ TerminalCalls(s) # {}
    /\ \A s \in Subs : TerminalCalls(s) # {}

\* C4: every value Logs() returns has the value it returned before as a
\* prefix.
C4_LogsMonotone == [][IsPrefix(logsRet, logsRet')]_vars

\* C5: once the loop has left and p.end is set, p.logs never changes and no
\* callback is called, whatever is called later.
C5_FrozenAfterEnd ==
    [][endSet => (logs' = logs /\ received' = received)]_vars

C5_Witness ==
    /\ endSet
    /\ lateCancel
    /\ logs # <<>>
    /\ \E s \in Subs : s \in callbacks /\ ~subLive[s]
    /\ \E s \in Subs : hs[s] = "gone"

\* C6: a Run on which Cancel was called while its process ran ends Canceled
\* and not Failed, whatever the read after the cancellation returned.
C6_CancelEndsCanceled ==
    (pc = "done" /\ cancelRunning) => (canceled /\ ~error)

\* C7: after Cancel on a running Run nothing more reaches the log: the
\* final log is the output produced up to the call.
C7_NothingAfterCancel ==
    (pc = "done" /\ cancelRunning) => logs = logAtCancel

\* C8: Cancel on a terminal Run changes neither p.error, p.canceled, p.end
\* nor p.logs and calls no callback, at the call and ever after.
C8_LateCancelNoOp ==
    [][lateCancel' => UNCHANGED <<error, canceled, endSet, logs, received>>]_vars

C8_Witness ==
    /\ lateCancel
    /\ ~canceled
    /\ \E s \in Subs : s \in callbacks

\* C9: a Run whose process wrote output and then ended cleanly (EOF, never
\* cancelled) is Completed and its log is exactly the data read with the
\* line breaks replaced by the token.
C9_CleanEndLog ==
    (pc = "done" /\ err = "EOF" /\ raw # <<>> /\ ~canceled
        /\ ~cancelRunning /\ ~lateCancel /\ srvErr = "nil") =>
            /\ ~error
            /\ logs = ReplaceAll(Concat(raw))

\* The calls s got are a run of consecutive chunks, in the order read.
InReadOrder(s) ==
    \E a \in 0..Len(chunks) :
        /\ a + Len(received[s]) <= Len(chunks)
        /\ \A i \in DOMAIN received[s] : received[s][i].text = chunks[a + i]

\* s subscribed before the first Read returned and is still registered.
AttachedFromStart(s) == Attached(s) /\ subAt[s] = 0

\* C10: each subscriber gets the chunks in the order they were read; two
\* subscribers attached before the first chunk was read and not removed get
\* the same sequence of calls (during a round one of them is at most the
\* round's call ahead).
C10_SameOrderedChunks ==
    /\ \A s \in Subs : InReadOrder(s)
    /\ \A s, t \in Subs :
          (AttachedFromStart(s) /\ AttachedFromStart(t)) =>
              /\ pc # "deliver" => received[s] = received[t]
              /\ IsPrefix(received[s], received[t])
                    \/ IsPrefix(received[t], received[s])
              /\ Len(received[s]) - Len(received[t]) \in {-1, 0, 1}

C10_Witness ==
    /\ pc = "done"
    /\ \A s \in Subs : AttachedFromStart(s) /\ Len(received[s]) >= 2
    /\ received[1][1].text # received[1][2].text

\* C17: a handler that has stopped consuming and calls Unsubscribe gets the
\* lock: the loop that holds it is never inside a callback whose handler has
\* left its select (nobody receives from that dataC any more), so
\* Unsubscribe returns and the loop is not left blocked.
C17_UnsubscribeReturns ==
    \A s \in Subs :
        hs[s] = "leaving" => (lck = "free" \/ cur = 0 \/ hs[cur] # "leaving")

\* C18: a Run whose loop got end-of-stream before any cancellation (Cancel
\* or Stop came only after that read returned, if at all) ends Completed,
\* not Canceled.
C18_FirstObservedWins ==
    (pc = "done" /\ err = "EOF" /\ ~cancelRunning /\ srvErr = "nil")
        => (~canceled /\ ~error)

\* The characters of a string.
Chars(str) == {str[i] : i \in DOMAIN str}

\* C20: the loop stores p.logs only while it holds p.lck, so no Logs() call
\* falls inside the store and none returns a torn value.
C20_LogUnderLock ==
    /\ pc \in {"storedLen", "storedPtr"} => lck = "loop"
    /\ "?" \notin Chars(logsRet)

\* The Runs newProcess returned to Start calls.
RunsOfStarts == {srun[g] : g \in Starts} \ {0}

\* Every Run created was returned to a Start call, the loop followed is that
\* of the first of them, and the map holds nothing but such Runs.
RunsAccounted ==
    /\ created = Cardinality(RunsOfStarts)
    /\ pc # "unborn" <=> 1 \in RunsOfStarts
    /\ \A i \in Ids : processes[i] # 0 => processes[i] \in RunsOfStarts

\* C11: a Start call with an empty argument vector ends with the
\* invalid-arguments error and gets no Run; it launches nothing, starts no
\* loop and leaves the map as it was (every Run, loop and map entry belongs
\* to another call).
C11_EmptyArgsRejected ==
    \A h \in Starts :
        (st[h] # "idle" /\ Len(sargs[h]) = 0) =>
            /\ st[h] = "invalid"
            /\ srun[h] = 0
            /\ RunsAccounted

\* A Start call was rejected for its empty arguments after another call had
\* created a Run.
C11_Witness ==
    \E h \in Starts : st[h] = "invalid" /\ Len(sargs[h]) = 0 /\ created = 1

\* C12: a Start call whose launch fails gets the error and no Run, the
\* context newProcess created for it is cancelled, and no Run, loop or map
\* entry comes from it.
C12_LaunchErrorReleases ==
    \A h \in Starts :
        st[h] = "launchfail" =>
            /\ srun[h] = 0
            /\ released[h]
            /\ \A i \in Ids : processes[i] = 0 \/ processes[i] \in RunsOfStarts
            /\ created = Cardinality(RunsOfStarts)
            /\ created = 0 => pc = "unborn"

\* The only Start call so far failed to launch.
C12_Witness ==
    \E h \in Starts :
        /\ st[h] = "launchfail" /\ Len(sargs[h]) > 0
        /\ created = 0 /\ pc = "unborn"
        /\ \A i \in Ids : processes[i] = 0

\* C13: once newProcess has returned a Run, the Start call goes on whatever
\* the loop does: it waits for the map's lock only, and when it has returned
\* the id it generated has an entry.
C13_StartDoesNotWait ==
    \A h \in Starts :
        /\ (st[h] = "launched" /\ regLck = "free") => ENABLED StartLock(h)
        /\ st[h] = "inserting" => ENABLED StartInsert(h)
        /\ st[h] = "returned" => processes[sid[h]] # 0

\* Start has returned, its Run is in the map, the loop has read nothing yet
\* and the log is empty.
C13_Witness ==
    \E h \in Starts :
        /\ st[h] = "returned" /\ srun[h] = 1 /\ processes[sid[h]] = 1
        /\ pc = "gate" /\ err = "nil" /\ logs = <<>> /\ ~endSet

\* C14: two Start calls that each got a Run have different ids.
C14_DistinctIds ==
    \A g, h \in Starts :
        (g # h /\ srun[g] # 0 /\ srun[h] # 0) => sid[g] # sid[h]

\* C15: the id of every Start call that has returned resolves to the Run
\* that call inserted.
C15_RunStaysResolvable ==
    \A h \in Starts : st[h] = "returned" => processes[sid[h]] = srun[h]

\* C19: no read of the map falls between the Lock and the Unlock of an
\* insert.
C19_MapUnderLock == ~raced

\* C16: a call of Unsubscribe with an id that has no entry, be it the first
\* such call or a repeated one, leaves the subscriber table, the log, the
\* status, the gate and the loop as they are.
C16_UnsubscribeAbsentNoOp ==
    [][\A s \in Subs :
          UnsubscribeAbsent(s) =>
              UNCHANGED <<callbacks, logs, endSet, error, canceled,
                          listening, ctxErr, pc, todo, cur>>]_vars

\* Unsubscribe was called with an id removed before and with an id never
\* subscribed, while the loop was still running with a chunk in its log.
C16_Witness ==
    \E s, t \in absentCalled :
        /\ hs[s] = "gone" /\ hs[t] = "idle"
        /\ ~LoopLeft /\ logs # <<>>

\* The loop of the first Run is inside a callback whose handler has left its
\* select: nobody will ever receive what the callback sends.
StuckInCallback == cur # 0 /\ hs[cur] = "leaving"

\* C21: while a callback of the first Run blocks forever, every step of the
\* second Run's loop, of a Start call and of the List, Logs and Cancel pages
\* asked for other Runs can be taken as soon as its own lock is free; the
\* map's lock is held by a /run request that can always release it and the
\* Run's lock by the Run's loop, so no task holds both.
C21_NoCrossRunBlocking ==
    /\ StuckInCallback =>
        /\ pc2 = "gate" => ENABLED Loop2Gate
        /\ (pc2 = "read" /\ reads2 < MaxReads) => ENABLED Loop2Read
        /\ pc2 = "deliver" => ENABLED Loop2Deliver
        /\ pc2 = "read" => ENABLED Loop2End
        /\ \A h \in Starts :
              /\ (st[h] = "idle" /\ srvErr = "nil"
                    /\ \A g \in Starts : g < h => st[g] # "idle")
                      => ENABLED StartLaunched(h)
              /\ (st[h] = "launched" /\ regLck = "free") => ENABLED StartLock(h)
        /\ ENABLED LogsList
        /\ \A i \in Ids :
              processes[i] # 1 => ENABLED OtherLogsPage(i) /\ ENABLED OtherCancel(i)
    /\ regLck = "held" <=> \E h \in Starts : st[h] = "inserting"
    /\ \A h \in Starts : st[h] = "inserting" => ENABLED StartInsert(h)
    /\ lck = "loop" <=> pc = "deliver"

\* A callback of the first Run is blocked for good, and yet a second Run was
\* started and inserted and its loop has read, delivered and ended.
C21_Witness ==
    /\ StuckInCallback
    /\ pc2 = "done" /\ reads2 > 0
    /\ \E h \in Starts : st[h] = "returned" /\ srun[h] = 2
    /\ found = {2}

\* C22: when Stop has returned, with or without an error, the Run's context
\* is cancelled; and a Run whose loop had not left by then ends up with its
\* canceled flag set, unless its loop is stuck for good in a callback.
C22_StopCancelsRuns ==
    /\ [](stopRet # "none" => (srvErr = "Canceled" /\ ctxErr = "Canceled"))
    /\ (srvErr = "Canceled" /\ ~LoopLeft) ~> (canceled \/ StuckInCallback)

\* The shutdown failed, the Run was cancelled all the same, and its loop,
\* which had output in its log, has ended with the canceled flag.
C22_Witness ==
    stopRet = "error" /\ canceled /\ pc = "done" /\ logs # <<>>

\* The handlers whose Subscribe call has returned.
Subscribed == {s \in Subs : hs[s] \in {"serving", "leaving", "gone"}}

\* C23: as long as the loop waits at its gate it has read nothing; the
\* gate's waitListening branch can be taken exactly when a Subscribe has
\* returned or the Run's context is cancelled (the other branch is the grace
\* period); the gate is open exactly when some Subscribe has returned, so a
\* later Subscribe leaves it open.
C23_GateBeforeReads ==
    /\ pc = "gate" =>
          /\ reads = 0 /\ raw = <<>> /\ chunks = <<>> /\ logs = <<>>
          /\ err = "nil"
          /\ ENABLED GateListening <=> (Subscribed # {} \/ CtxDone)
    /\ listening <=> Subscribed # {}

\* Two Subscribe calls have returned while the loop still waits at the gate
\* the first of them opened.
C23_Witness ==
    /\ pc = "gate"
    /\ listening
    /\ Cardinality(Subscribed) = 2

\* C24: a callback runs only while it is in the subscriber table, inside the
\* broadcast of the chunk it is given; what a subscriber has received are
\* the chunks that came after those already broadcast when it registered, in
\* order and none twice, and one that registered after the last broadcast or
\* after the loop had left has received nothing.
C24_NoReplay ==
    /\ cur # 0 => (cur \in callbacks /\ lck = "loop")
    /\ \A s \in Subs :
          /\ subDone[s] + Len(received[s]) <= Len(chunks)
          /\ \A i \in DOMAIN received[s] :
                received[s][i].text = chunks[subDone[s] + i]
          /\ (hs[s] # "idle" /\ ~subLive[s]) => received[s] = <<>>

\* One subscriber registered after the first chunk had been broadcast and
\* got the later chunk only; another registered after the last broadcast
\* and got nothing.
C24_Witness ==
    \E s, t \in Subs :
        /\ subDone[s] = 1 /\ Len(received[s]) = 1 /\ Len(chunks) = 2
        /\ hs[t] # "idle" /\ subDone[t] = 2 /\ received[t] = <<>>

\* The subscribers that were in the table for the last broadcast and still
\* are.
HeardLast(s) == Attached(s) /\ subDone[s] < Len(chunks)

\* C25: a Run whose read failed and whose loop left without the canceled
\* flag is Failed; the error's text is the last chunk of its log; the
\* subscribers in the table got it as their last call, with close = true;
\* and the Start call that made the Run has returned its Run, not an error.
C25_ReadErrorFails ==
    (err = "err" /\ LoopLeft /\ ~canceled) =>
        /\ error
        /\ chunks[Len(chunks)] = ErrText
        /\ logs = Concat(chunks)
        /\ \A s \in Subs :
              HeardLast(s) =>
                  received[s][Len(received[s])] = [text |-> ErrText, close |-> TRUE]
        /\ \A h \in Starts : srun[h] = 1 => st[h] = "returned"

\* A Run that read data and then an error has ended Failed, and a
\* subscriber got the error text as its terminal call.
C25_Witness ==
    /\ pc = "done" /\ err = "err" /\ error /\ ~canceled
    /\ Len(chunks) = 2
    /\ \E s \in Subs : HeardLast(s) /\ Len(received[s]) = 2

\* C26: with no Cancel and no Stop, a Run whose read returned end-of-stream
\* never has its error or its canceled flag set, neither before nor after
\* the loop's deferred cancel() has cancelled the Run's context.
C26_EofCompletes ==
    /\ ~canceled
    /\ err = "EOF" => ~error
    /\ ctxErr = "Canceled" <=> pc = "done"

\* The Run has ended after end-of-stream: its end is set and its context
\* cancelled by the loop itself, and it is marked neither Failed nor
\* Canceled.
C26_Witness ==
    /\ pc = "done" /\ err = "EOF" /\ endSet /\ ctxErr = "Canceled"
    /\ ~error /\ ~canceled
    /\ Len(chunks) = 2

\* C27: a loop that waits at its gate with the Run's context cancelled can
\* leave it at once by the waitListening branch; from there it goes to the
\* cancellation check and out of the loop without a read; and a loop that
\* has left without having read is Canceled, not Failed, with an empty log.
C27_CancelAtGate ==
    /\ []((pc = "gate" /\ CtxDone) => ENABLED GateListening)
    /\ [][(CtxDone /\ pc \in {"gate", "check"}) =>
              /\ pc' \in {"gate", "check", "setend"}
              /\ UNCHANGED <<reads, chunks, raw, logs, error>>]_vars
    /\ []((LoopLeft /\ chunks = <<>>) =>
              (canceled /\ ~error /\ logs = <<>> /\ reads = 0))

\* Cancel was called while the Run waited at its gate, and the Run has ended
\* Canceled with an empty log.
C27_Witness ==
    /\ pc = "done" /\ endSet /\ canceled /\ ~error
    /\ cancelRunning /\ ~listening
    /\ chunks = <<>> /\ logs = <<>> /\ reads = 0

\* The texts the loop makes of the data it read.
RECURSIVE ReplaceEach(_)
ReplaceEach(datas) ==
    IF datas = <<>> THEN <<>>
    ELSE <<ReplaceAll(Head(datas))>> \o ReplaceEach(Tail(datas))

\* C29: with no subscriber the loop can always leave its gate by the grace
\* period; every chunk it read from the process is in the log, converted and
\* in order, as soon as its store is over; and the loop does leave, with the
\* end set after a terminal read or a cancellation.
C29_RunsWithoutSubscribers ==
    /\ [](callbacks = {} /\ ~listening)
    /\ [](pc = "gate" => ENABLED GateTimeout)
    /\ [](IsPrefix(ReplaceEach(raw), chunks))
    /\ [](pc \notin {"append", "storedLen", "storedPtr"} => logs = Concat(chunks))
    /\ <>[](pc = "done" /\ endSet /\ (err # "nil" \/ canceled))

\* The Run has ended by itself after two reads with data and end-of-stream,
\* with nobody subscribed and no cancellation.
C29_Witness ==
    /\ pc = "done" /\ endSet /\ err = "EOF" /\ ~canceled /\ ~cancelRunning
    /\ callbacks = {} /\ ~listening
    /\ Len(raw) = MaxReads /\ logs = Concat(ReplaceEach(raw)) \o EOFText

\* C28: the end time is unset while the loop is active, is written by the
\* loop's exit and by nothing else, is never written again or cleared, and
\* a Run that shows a terminal flag gets its end time.
C28_EndTimeOnce ==
    /\ [](endSet <=> pc \in {"cancelctx", "done"})
    /\ [][endSet' # endSet => (pc = "setend" /\ ~endSet /\ endSet')]_vars
    /\ (error \/ canceled) ~> endSet

\* The records the stream owes for a sequence of deliveries: one log record
\* each, and a close record after a delivery with close set.
RECURSIVE RecordsOf(_)
RecordsOf(calls) ==
    IF calls = <<>> THEN <<>>
    ELSE <<LogRecord(Head(calls).text)>>
         \o (IF Head(calls).close THEN <<CloseRecord>> ELSE <<>>)
         \o RecordsOf(Tail(calls))

\* The deliveries to s whose callback has returned.
Returned(s) ==
    IF cur = s THEN SubSeq(received[s], 1, Len(received[s]) - 1)
    ELSE received[s]

\* C30: on every event stream the records written are, in order, one log
\* record for each delivery whose callback returned and one close record
\* after the terminal one (a callback still running has written its log
\* record when it is at its close record); a close record is the last
\* record of its stream.
C30_StreamRecords ==
    \A s \in Subs :
        /\ written[s] =
              RecordsOf(Returned(s))
              \o (IF cur = s /\ stage = "close"
                  THEN <<LogRecord(received[s][Len(received[s])].text)>>
                  ELSE <<>>)
        /\ \A i \in DOMAIN written[s] :
              written[s][i].event = "close" => i = Len(written[s])

\* Both streams got a chunk and the terminal chunk, each followed by the
\* records owed, and the loop has left.
C30_Witness ==
    /\ pc = "done"
    /\ \A s \in Subs :
          /\ Len(received[s]) = 2
          /\ received[s][2].close
          /\ Len(written[s]) = 3
          /\ written[s][3] = CloseRecord

\* C31: a handler whose Subscribe is at or past the call that opens the
\* gate, and has not unsubscribed, is in the subscriber table, so the gate is
\* never open with an empty history of stored callbacks; a subscriber stored
\* before the first read returned and not removed has been given every chunk
\* whose broadcast is over, the first one included, in order.
C31_StoredBeforeGateOpens ==
    /\ \A s \in Subs :
          hs[s] \in {"subscribed", "serving", "leaving"} => s \in callbacks
    /\ listening => \E s \in Subs : hs[s] \in {"serving", "leaving", "gone"}
    /\ \A s \in Subs :
          AttachedFromStart(s) =>
              /\ Len(received[s]) >= Broadcast
              /\ Len(received[s]) <= Len(chunks)
              /\ \A i \in DOMAIN received[s] :
                    received[s][i].text = chunks[i]

\* A subscriber opened the gate while the loop waited, the loop has read and
\* left, and the subscriber got the first chunk and the last one.
C31_Witness ==
    /\ pc = "done"
    /\ listening
    /\ \E s \in Subs :
          /\ AttachedFromStart(s)
          /\ hs[s] = "serving"
          /\ Len(chunks) = 2
          /\ Len(received[s]) = 2
          /\ received[s][1].text = chunks[1]
    /\ \E t \in Subs : ~AttachedFromStart(t)

\* The texts of the calls s got, joined in order.
RECURSIVE Delivered(_)
Delivered(calls) ==
    IF calls = <<>> THEN <<>>
    ELSE Head(calls).text \o Delivered(Tail(calls))

\* C32: an observer that got a (whole, non-empty) value from Logs and then
\* subscribed has, when the Run is terminal, a snapshot and deliveries that
\* joined give the Run's log: no chunk missing, none twice.
C32_SnapshotThenStream ==
    \A s \in CrossSubs :
        (pc = "done" /\ hs[s] = "serving" /\ logsRet # <<>>
            /\ "?" \notin Chars(logsRet)) =>
                logsRet \o Delivered(received[s]) = logs

\* C33: once the Run has its end time, its log is the texts, joined in
\* order, of the calls any subscriber got that was stored before the first
\* read returned and not removed; the last of them is the terminal chunk
\* whenever a read ended the Run.
C33_LogIsDelivered ==
    endSet =>
        \A s \in Subs :
            AttachedFromStart(s) =>
                /\ logs = Delivered(received[s])
                /\ err # "nil" =>
                      /\ received[s] # <<>>
                      /\ received[s][Len(received[s])].text \in {EOFText, ErrText}

\* The Run ended after data and a terminal read; one subscriber was there
\* from the start and got both chunks, another came later.
C33_Witness ==
    /\ pc = "done"
    /\ Len(chunks) = 2
    /\ logs # <<>>
    /\ \E s \in Subs : AttachedFromStart(s) /\ logs = Delivered(received[s])
    /\ \E t \in Subs : Attached(t) /\ subAt[t] > 0

\* C34: a handler whose Unsubscribe has returned (its dataC is closed after
\* that) is not in the subscriber table nor in the range the loop is in, and
\* from then on its callback is not called and sends nothing.
C34_NoCallAfterUnsubscribe ==
    /\ [](\A s \in Subs :
             hs[s] = "gone" => (s \notin callbacks /\ s \notin todo /\ cur # s))
    /\ [][\A s \in Subs :
             hs[s] = "gone" =>
                 (received'[s] = received[s] /\ written'[s] = written[s])]_vars

\* One handler unsubscribed after its first chunk; the terminal chunk was
\* then broadcast to the other handler only.
C34_Witness ==
    /\ pc = "done"
    /\ \E s, t \in Subs :
          /\ hs[s] = "gone"
          /\ Len(received[s]) = 1
          /\ TerminalCalls(s) = {}
          /\ subDone[t] = 0
          /\ TerminalCalls(t) # {}


====
